---- MODULE Spec2Model ----
(***************************************************************************)
(* A model of experiment_results_manager: the in-memory ExperimentRun and  *)
(* its logging operations (experiment_run.py), the comparison renderer     *)
(* (compare_runs.py, html_util.py), and the serializer and the registry    *)
(* on a blob store (serde.py, registry.py, fsspec_util.py).                *)
(*                                                                         *)
(* Python strings and byte strings are sequences of code points / byte     *)
(* values, so that ordering, slicing, concatenation and encoding are what  *)
(* Python computes.  Python dicts held by a run are objects on a heap, so  *)
(* that two references to one dict see each other's updates.               *)
(***************************************************************************)
EXTENDS Integers, Sequences, FiniteSets, TLC

\* ------------------------------------------------------------ bounds

\* The number of calls (constructions, logging, rendering) of one behaviour
\* of SpecRun.
MaxOps == 3
\* The number of save calls of one behaviour of SpecPath and of SpecRegistry.
MaxSaves == 2

\* ------------------------------------------------------------ strings

\* "main", the default variant_id (experiment_run.py:56).
MAIN == <<109, 97, 105, 110>>
\* Experiment ids "e1", "e2".
E1 == <<101, 49>>
E2 == <<101, 50>>
\* Variant id "v2".
V2 == <<118, 50>>
\* Keys "x", "y" and dict names "d", "f".
KX == <<120>>
KY == <<121>>
ND == <<100>>
NF == <<102>>
\* Artifact ids "a1", "a2".
A1 == <<97, 49>>
A2 == <<97, 50>>
\* File names "f.bin", "g.bin".
F_BIN == <<102, 46, 98, 105, 110>>
G_BIN == <<103, 46, 98, 105, 110>>
\* Local paths "/tmp/img.png" (an existing file) and "/tmp/none" (no file).
P_IMG == <<47, 116, 109, 112, 47, 105, 109, 103, 46, 112, 110, 103>>
P_NONE == <<47, 116, 109, 112, 47, 110, 111, 110, 101>>
\* The registry root "/reg" and the run paths "/p", "/q".
REG == <<47, 114, 101, 103>>
PATH_P == <<47, 112>>
PATH_Q == <<47, 113>>
\* A caller-chosen run id, "r9".
R9 == <<114, 57>>
\* ".erm_registry.json" (serde.py:54)
REGISTRY_FILE_NAME ==
    <<46, 101, 114, 109, 95, 114, 101, 103, 105, 115, 116, 114, 121, 46, 106,
      115, 111, 110>>
\* ".erm_experiment.json"
EXPERIMENT_FILE_NAME ==
    <<46, 101, 114, 109, 95, 101, 120, 112, 101, 114, 105, 109, 101, 110, 116,
      46, 106, 115, 111, 110>>
\* ".erm_variant.json"
VARIANT_FILE_NAME ==
    <<46, 101, 114, 109, 95, 118, 97, 114, 105, 97, 110, 116, 46, 106, 115,
      111, 110>>
\* "erm_metadata.json"
RUN_METADATA_FILE_NAME ==
    <<101, 114, 109, 95, 109, 101, 116, 97, 100, 97, 116, 97, 46, 106, 115,
      111, 110>>
\* "artifacts", the directory of a run's artifact files (serde.py:146)
ARTIFACTS_DIR == <<97, 114, 116, 105, 102, 97, 99, 116, 115>>
\* Byte strings.
B1 == <<1, 2>>
B2 == <<137, 80>>
\* The text "hé" (code points 104, 233).
TXT == <<104, 233>>

\* Python's str < str: lexicographic by code point, a proper prefix first.
StrLess(a, b) ==
    \E i \in 1..Len(b) :
        /\ i <= Len(a) + 1
        /\ \A j \in 1..(i - 1) : a[j] = b[j]
        /\ (i = Len(a) + 1 \/ a[i] < b[i])

\* list.sort() of a list of distinct strings, given as the set of its items.
RECURSIVE SortedList(_)
SortedList(S) ==
    IF S = {} THEN << >>
    ELSE LET m == CHOOSE x \in S : \A y \in S \ {x} : StrLess(x, y)
         IN  <<m>> \o SortedList(S \ {m})

\* str.encode("utf-8") of one code point, then of a string.
Utf8Char(c) ==
    IF c < 128 THEN <<c>>
    ELSE IF c < 2048 THEN <<192 + (c \div 64), 128 + (c % 64)>>
    ELSE <<224 + (c \div 4096), 128 + ((c \div 64) % 64), 128 + (c % 64)>>

RECURSIVE Utf8Encode(_)
Utf8Encode(s) ==
    IF s = << >> THEN << >> ELSE Utf8Char(Head(s)) \o Utf8Encode(Tail(s))

\* os.path.basename: what follows the last "/".
Basename(p) ==
    LET slashes == {i \in 1..Len(p) : p[i] = 47}
        last == IF slashes = {} THEN 0
                ELSE CHOOSE i \in slashes : \A j \in slashes : j <= i
    IN  SubSeq(p, last + 1, Len(p))

\* The decimal digits of a natural number, as str(n) and f"{n}" give them.
RECURSIVE Digits(_)
Digits(n) ==
    IF n < 10 THEN <<48 + n>> ELSE Digits(n \div 10) \o <<48 + (n % 10)>>

\* ------------------------------------------------------------ values

\* Optional[T]: None is the empty set, a given value v is {v}.
None == {}
Some(v) == {v}
The(opt) == CHOOSE v \in opt : TRUE

\* A param / metric / dict value, Union[str, int, float]: the type's name,
\* then the int itself or the code points of the str.
IntVal(n) == <<"int", n>>
StrVal(s) == <<"str">> \o s
Values == {IntVal(2), StrVal(<<49>>)}
Keys == {KX, KY}
DictNames == {ND, NF}

\* A Python dict as a function; {} is the function of empty domain.
EmptyDict == [k \in {} |-> 0]
\* d[k] = v
Put(d, k, v) == [x \in DOMAIN d \cup {k} |-> IF x = k THEN v ELSE d[x]]
\* d.update(m)
Update(d, m) ==
    [x \in DOMAIN d \cup DOMAIN m |-> IF x \in DOMAIN m THEN m[x] ELSE d[x]]

\* class ArtifactType(str, Enum): the member names and their values.
ArtifactType == {"PNG", "JPG", "PLOTLY_JSON", "HTML", "BINARY"}

\* @dataclass Artifact(ArtifactBase)
Artifact(id, filename, artifact_type, bytes) ==
    [id |-> id, filename |-> filename, artifact_type |-> artifact_type,
     bytes |-> bytes]

\* @dataclass ArtifactBase: the projection without the bytes.
ArtifactBase(id, filename, artifact_type) ==
    [id |-> id, filename |-> filename, artifact_type |-> artifact_type]

\* Python objects handed to log_artifact / log_text: bytes or str.
Bytes(b) == [kind |-> "bytes", val |-> b]
Str(s) == [kind |-> "str", val |-> s]
\* The builtin type object `bytes`, which log_text hands to isinstance.
BuiltinBytes == [kind |-> "type", val |-> << >>]
isinstance_bytes(o) == o.kind = "bytes"
isinstance_str(o) == o.kind = "str"

\* The caller's local files, read by open(path, "rb").
LocalFiles == (P_IMG :> B2)

\* A timestamp: month, second and microsecond of 2024-MM-01 00:00:SS.UUUUUU.
Timestamp(mo, s, us) == [mo |-> mo, s |-> s, us |-> us]
\* What successive datetime.utcnow() calls can return, in order of time.
ClockTicks ==
    << Timestamp(1, 0, 0), Timestamp(6, 0, 0), Timestamp(6, 0, 500000),
       Timestamp(10, 5, 0) >>

\* timestamp_utc.strftime("%Y_%m_%d__%H_%M_%S")
Pad2(n) == <<48 + (n \div 10), 48 + (n % 10)>>
strftime(ts) ==
    <<50, 48, 50, 52, 95>> \o Pad2(ts.mo) \o <<95, 48, 49, 95, 95, 48, 48, 95,
      48, 48, 95>> \o Pad2(ts.s)

\* ------------------------------------------------------------ state

VARIABLES
    runs,     \* the ExperimentRun objects: handle -> its attributes
    vheap,    \* dict objects str -> value (params, metrics, a named dict)
    dheap,    \* dict objects name -> reference into vheap (a run's dicts)
    aheap,    \* dict objects artifact id -> Artifact (a run's artifacts)
    nops,     \* the number of calls made
    clock,    \* the index in ClockTicks of the last utcnow()
    call,     \* the last call: its name and arguments
    ret,      \* its outcome: the exception raised ("none") and the value
    fs,       \* the blob store: path -> blob
    wlog      \* the paths the last call wrote with write_to_file, in order

vars == <<runs, vheap, dheap, aheap, nops, clock, call, ret, fs, wlog>>

Handles == {"r1", "r2"}

NoCall == [op |-> "none", args |-> << >>]
Returned(v) == [exc |-> "none", val |-> v]
Raised(e) == [exc |-> e, val |-> << >>]

\* A fresh object id of a heap.
Fresh(heap) == Cardinality(DOMAIN heap) + 1

\* ------------------------------------------------------------ ExperimentRun

\* The mappings a caller may own before it constructs a run, and hand to the
\* constructor: a str -> value dict {"x": 1} and a dict of named dicts
\* {"d": that dict}.
CallerVHeap == (1 :> (KX :> IntVal(1)))
CallerDHeap == (1 :> (ND :> 1))

InitRun ==
    /\ runs = [h \in {} |-> 0]
    /\ vheap = CallerVHeap
    /\ dheap = CallerDHeap
    /\ aheap = [o \in {} |-> 0]
    /\ nops = 0
    /\ clock = 0
    /\ call = NoCall
    /\ ret = Returned(<< >>)
    /\ fs = [p \in {} |-> 0]
    /\ wlog = << >>

\* ExperimentRun.__init__: a mapping argument that is not None is stored as
\* it is (the caller's object); None gives a new empty dict.
ExperimentRun_init(h, experiment_id, variant_id, run_id, timestamp_utc, params, metrics, dicts, artifacts) ==
    /\ h \notin DOMAIN runs
    /\ nops < MaxOps
    /\ timestamp_utc = None => clock < Len(ClockTicks)
    /\ LET now == IF timestamp_utc = None THEN clock + 1 ELSE clock
           ts == IF timestamp_utc = None THEN ClockTicks[now]
                 ELSE The(timestamp_utc)
           rid == IF run_id = None THEN strftime(ts) ELSE The(run_id)
           pref == IF params # None THEN The(params) ELSE Fresh(vheap)
           vh1 == IF params # None THEN vheap ELSE vheap @@ (pref :> EmptyDict)
           mref == IF metrics # None THEN The(metrics) ELSE Fresh(vh1)
           vh2 == IF metrics # None THEN vh1 ELSE vh1 @@ (mref :> EmptyDict)
           dref == IF dicts # None THEN The(dicts) ELSE Fresh(dheap)
           aref == IF artifacts # None THEN The(artifacts) ELSE Fresh(aheap)
       IN  /\ clock' = now
           /\ vheap' = vh2
           /\ dheap' = IF dicts # None THEN dheap
                       ELSE dheap @@ (dref :> EmptyDict)
           /\ aheap' = IF artifacts # None THEN aheap
                       ELSE aheap @@ (aref :> EmptyDict)
           /\ runs' = runs @@ (h :> [experiment_id |-> experiment_id,
                                     variant_id |-> variant_id,
                                     run_id |-> rid,
                                     timestamp_utc |-> ts,
                                     params |-> pref,
                                     metrics |-> mref,
                                     dicts |-> dref,
                                     artifacts |-> aref])
    /\ nops' = nops + 1
    /\ call' = [op |-> "ExperimentRun", args |-> <<h, params, metrics, dicts>>]
    /\ ret' = Returned(<< >>)
    /\ UNCHANGED <<fs, wlog>>

\* The bookkeeping of a logging call on run h.
Logged(h, op, args, exc) ==
    /\ nops' = nops + 1
    /\ call' = [op |-> op, args |-> <<h>> \o args]
    /\ ret' = IF exc = "none" THEN Returned(<< >>) ELSE Raised(exc)
    /\ UNCHANGED <<runs, clock, fs, wlog>>

\* self.params[key] = value
log_param(h, key, value) ==
    /\ h \in DOMAIN runs /\ nops < MaxOps
    /\ vheap' = [vheap EXCEPT ![runs[h].params] = Put(@, key, value)]
    /\ UNCHANGED <<dheap, aheap>>
    /\ Logged(h, "log_param", <<key, value>>, "none")

\* self.metrics[key] = value
log_metric(h, key, value) ==
    /\ h \in DOMAIN runs /\ nops < MaxOps
    /\ vheap' = [vheap EXCEPT ![runs[h].metrics] = Put(@, key, value)]
    /\ UNCHANGED <<dheap, aheap>>
    /\ Logged(h, "log_metric", <<key, value>>, "none")

\* self.params.update(data)
log_params(h, data) ==
    /\ h \in DOMAIN runs /\ nops < MaxOps
    /\ vheap' = [vheap EXCEPT ![runs[h].params] = Update(@, data)]
    /\ UNCHANGED <<dheap, aheap>>
    /\ Logged(h, "log_params", <<data>>, "none")

\* self.metrics.update(data)
log_metrics(h, data) ==
    /\ h \in DOMAIN runs /\ nops < MaxOps
    /\ vheap' = [vheap EXCEPT ![runs[h].metrics] = Update(@, data)]
    /\ UNCHANGED <<dheap, aheap>>
    /\ Logged(h, "log_metrics", <<data>>, "none")

\* if dict_name not in self.dicts: self.dicts[dict_name] = {}
\* self.dicts[dict_name].update(data)
log_dict(h, dict_name, data) ==
    /\ h \in DOMAIN runs /\ nops < MaxOps
    /\ LET d == runs[h].dicts
           absent == dict_name \notin DOMAIN dheap[d]
           ref == IF absent THEN Fresh(vheap) ELSE dheap[d][dict_name]
           vh1 == IF absent THEN vheap @@ (ref :> EmptyDict) ELSE vheap
       IN  /\ dheap' = IF absent THEN [dheap EXCEPT ![d] = Put(@, dict_name, ref)]
                       ELSE dheap
           /\ vheap' = [vh1 EXCEPT ![ref] = Update(@, data)]
    /\ UNCHANGED aheap
    /\ Logged(h, "log_dict", <<dict_name, data>>, "none")

\* A log_artifact that takes the artifact id for a missing filename instead
\* of raising.
log_artifact_outcome_nocheck(src_path_or_bytes, artifact_id, filename, artifact_type) ==
    [exc |-> "none",
     artifact |-> Artifact(artifact_id,
                           IF filename = None THEN artifact_id ELSE The(filename),
                           artifact_type, src_path_or_bytes.val)]

\* artifact_type: ArtifactType = ArtifactType.BINARY, the default of an
\* argument that is not given.
ArtifactTypeOrDefault(artifact_type) ==
    IF artifact_type = None THEN "BINARY" ELSE The(artifact_type)

\* The body of log_artifact up to the store: the artifact it builds, or the
\* exception it raises.
log_artifact_outcome(src_path_or_bytes, artifact_id, filename, artifact_type) ==
    IF isinstance_bytes(src_path_or_bytes)
    THEN IF filename = None
         THEN [exc |-> "ValueError", artifact |-> << >>]
         ELSE [exc |-> "none",
               artifact |-> Artifact(artifact_id, The(filename), artifact_type,
                                     src_path_or_bytes.val)]
    ELSE IF src_path_or_bytes.val \notin DOMAIN LocalFiles
         THEN [exc |-> "FileNotFoundError", artifact |-> << >>]
         ELSE [exc |-> "none",
               artifact |-> Artifact(artifact_id,
                                     Basename(src_path_or_bytes.val),
                                     artifact_type,
                                     LocalFiles[src_path_or_bytes.val])]

\* A store that replaces the whole artifacts dict by the new entry.
StoreArtifact_clear(h, artifact_id, out) ==
    aheap' = IF out.exc = "none"
             THEN [aheap EXCEPT ![runs[h].artifacts] =
                                    (artifact_id :> out.artifact)]
             ELSE aheap

\* self.artifacts[artifact_id] = artifact, unless the body raised.
StoreArtifact(h, artifact_id, out) ==
    aheap' = IF out.exc = "none"
             THEN [aheap EXCEPT ![runs[h].artifacts] =
                                    Put(@, artifact_id, out.artifact)]
             ELSE aheap

log_artifact(h, src_path_or_bytes, artifact_id, filename, artifact_type) ==
    /\ h \in DOMAIN runs /\ nops < MaxOps
    /\ LET out == log_artifact_outcome(src_path_or_bytes, artifact_id, filename,
                                       ArtifactTypeOrDefault(artifact_type))
       IN  /\ StoreArtifact(h, artifact_id, out)
           /\ Logged(h, "log_artifact",
                     <<src_path_or_bytes, artifact_id, filename, artifact_type>>,
                     out.exc)
    /\ UNCHANGED <<vheap, dheap>>

\* log_image: the artifact id stands in for a filename that is not given,
\* then log_artifact with ArtifactType.PNG, which takes the basename of a
\* source path as the filename whatever filename it is given.
log_image(h, src_path_or_bytes, artifact_id, filename) ==
    /\ h \in DOMAIN runs /\ nops < MaxOps
    /\ LET filename_or_id == IF filename = None THEN artifact_id
                             ELSE The(filename)
           out == log_artifact_outcome(src_path_or_bytes, artifact_id,
                                       Some(filename_or_id), "PNG")
       IN  /\ StoreArtifact(h, artifact_id, out)
           /\ Logged(h, "log_image",
                     <<src_path_or_bytes, artifact_id, filename>>, out.exc)
    /\ UNCHANGED <<vheap, dheap>>

\* log_text: `data` is bound by the first branch only; the second tests the
\* builtin `bytes` against str, and an unbound `data` raises
\* UnboundLocalError at the call of log_artifact.
log_text_data(text) ==
    IF isinstance_str(text) THEN Some(Utf8Encode(text.val))
    ELSE IF isinstance_str(BuiltinBytes) THEN Some(text.val)
    ELSE None

log_text(h, text, artifact_id) ==
    /\ h \in DOMAIN runs /\ nops < MaxOps
    /\ LET data == log_text_data(text)
           out == IF data = None
                  THEN [exc |-> "UnboundLocalError", artifact |-> << >>]
                  ELSE log_artifact_outcome(Bytes(The(data)), artifact_id,
                                            Some(artifact_id), "BINARY")
       IN  /\ StoreArtifact(h, artifact_id, out)
           /\ Logged(h, "log_text", <<text, artifact_id>>, out.exc)
    /\ UNCHANGED <<vheap, dheap>>

\* ------------------------------------------------------------ compare_runs

\* f"{value}": a str as it is, an int in decimal.
FormatValue(value) ==
    IF value[1] = "str" THEN Tail(value) ELSE Digits(value[2])

\* The HTML document is kept as the sequence of its parts, in the order the
\* code appends them; "" is the empty sequence.

\* dicts_to_html_table: no table when no dict has a key; else one row per key
\* of the union, ascending, and one cell per dict, "" where the key is absent.
dicts_to_html_table(dict_name, data) ==
    LET keys == UNION {DOMAIN data[i] : i \in 1..Len(data)}
        keys_list == SortedList(keys)
    IN  IF Len(keys_list) = 0 THEN << >>
        ELSE << [kind |-> "table",
                 title |-> dict_name,
                 ncols |-> Len(data),
                 rows |-> [r \in 1..Len(keys_list) |->
                     [key |-> keys_list[r],
                      cells |-> [i \in 1..Len(data) |->
                          IF keys_list[r] \in DOMAIN data[i]
                          THEN FormatValue(data[i][keys_list[r]])
                          ELSE << >>]]]] >>

\* timestamps_to_html_table: one row per run, in input order.
timestamps_to_html_table(ers) ==
    << [kind |-> "timestamps",
        rows |-> [i \in 1..Len(ers) |->
            [experiment_id |-> ers[i].experiment_id,
             variant_id |-> ers[i].variant_id,
             run_id |-> ers[i].run_id,
             timestamp_utc |-> ers[i].timestamp_utc]]] >>

\* The attributes ExperimentRun.__init__ sets; a run has no others.
ExperimentRunAttrs ==
    {"timestamp_utc", "run_id", "variant_id", "experiment_id", "params",
     "metrics", "dicts", "artifacts"}

\* _feature_list_to_dict reads er.features: AttributeError when the run has
\* no such attribute, else the features numbered from "1".
feature_list_to_dict(er) ==
    IF "features" \in ExperimentRunAttrs
    THEN [exc |-> "none",
          val |-> [k \in {Digits(i) : i \in 1..Len(er.features)} |->
                      er.features[CHOOSE i \in 1..Len(er.features) : Digits(i) = k]]]
    ELSE [exc |-> "AttributeError", val |-> << >>]

\* human_readable_bytes: divide by 1024 until below 1024, one decimal place.
RECURSIVE Pow1024(_)
Pow1024(k) == IF k = 0 THEN 1 ELSE 1024 * Pow1024(k - 1)

human_readable_bytes(num_bytes) ==
    LET units == << << >>, <<75, 105>>, <<77, 105>>, <<71, 105>>, <<84, 105>>,
                    <<80, 105>>, <<69, 105>>, <<90, 105>> >>
        fits == {k \in 1..Len(units) : num_bytes < 1024 * Pow1024(k - 1)}
        k == IF fits = {} THEN Len(units) + 1
             ELSE CHOOSE i \in fits : \A j \in fits : i <= j
        unit == IF fits = {} THEN <<89, 105>> ELSE units[k]
        tenths == (num_bytes * 20 + Pow1024(k - 1)) \div (2 * Pow1024(k - 1))
    IN  Digits(tenths \div 10) \o <<46>> \o Digits(tenths % 10) \o <<32>>
        \o unit \o <<66>>

\* render_artifact: the fragment for artifact k of run number i.
render_artifact(k, i, artifact) ==
    [run |-> i + 1,
     body |->
        IF artifact.artifact_type = "PLOTLY_JSON"
            THEN [kind |-> "plotly", src |-> artifact.bytes]
        ELSE IF artifact.artifact_type \in {"PNG", "JPG"}
            THEN [kind |-> "img", src |-> artifact.bytes]
        ELSE IF artifact.artifact_type = "BINARY"
            THEN [kind |-> "binary", src |-> artifact.filename
                      \o <<10>> \o human_readable_bytes(Len(artifact.bytes))]
        ELSE [kind |-> "nothing", src |-> << >>],
     add_plotlyjs_to_html |-> artifact.artifact_type = "PLOTLY_JSON"]

\* The runs as compare_runs reads them: the attributes, the dicts followed.
RunView(h) ==
    [experiment_id |-> runs[h].experiment_id,
     variant_id |-> runs[h].variant_id,
     run_id |-> runs[h].run_id,
     timestamp_utc |-> runs[h].timestamp_utc,
     params |-> vheap[runs[h].params],
     metrics |-> vheap[runs[h].metrics],
     dicts |-> [n \in DOMAIN dheap[runs[h].dicts] |->
                   vheap[dheap[runs[h].dicts][n]]],
     artifacts |-> aheap[runs[h].artifacts]]

\* Concatenation of a sequence of part sequences.
RECURSIVE Concat(_)
Concat(ss) == IF ss = << >> THEN << >> ELSE Head(ss) \o Concat(Tail(ss))

\* compare_runs(*runs, inject_css=...): the document, or the exception of the
\* first statement that raises.
compare_runs_outcome(ers, inject_css) ==
    LET n == Len(ers)
        css == IF inject_css THEN << [kind |-> "style"] >> ELSE << >>
        features == [i \in 1..n |-> feature_list_to_dict(ers[i])]
        dict_keys == SortedList(UNION {DOMAIN ers[i].dicts : i \in 1..n})
        artifact_keys == SortedList(UNION {DOMAIN ers[i].artifacts : i \in 1..n})
        dict_tables == [j \in 1..Len(dict_keys) |->
            dicts_to_html_table(dict_keys[j],
                [i \in 1..n |-> IF dict_keys[j] \in DOMAIN ers[i].dicts
                                THEN ers[i].dicts[dict_keys[j]]
                                ELSE EmptyDict])]
        having(k) == {i \in 1..n : k \in DOMAIN ers[i].artifacts}
        rendered(k) == [i \in having(k) |->
                           render_artifact(k, i - 1, ers[i].artifacts[k])]
        sections == [j \in 1..Len(artifact_keys) |->
            << [kind |-> "artifact", key |-> artifact_keys[j],
                runs |-> rendered(artifact_keys[j])] >>]
        add_plotlyjs ==
            \E j \in 1..Len(artifact_keys) : \E i \in having(artifact_keys[j]) :
                rendered(artifact_keys[j])[i].add_plotlyjs_to_html
        html == css
                \o timestamps_to_html_table(ers)
                \o dicts_to_html_table(<<80, 97, 114, 97, 109, 115>>,
                                       [i \in 1..n |-> ers[i].params])
                \o dicts_to_html_table(<<70, 101, 97, 116, 117, 114, 101, 115>>,
                                       [i \in 1..n |-> features[i].val])
                \o dicts_to_html_table(<<77, 101, 116, 114, 105, 99, 115>>,
                                       [i \in 1..n |-> ers[i].metrics])
                \o Concat(dict_tables)
                \o << [kind |-> "artifacts_heading"] >>
                \o Concat(sections)
    IN  IF \E i \in 1..n : features[i].exc # "none"
        THEN Raised(features[CHOOSE i \in 1..n : features[i].exc # "none"].exc)
        ELSE Returned((IF add_plotlyjs THEN << [kind |-> "plotlyjs"] >>
                       ELSE << >>) \o html)

compare_runs(hs, inject_css) ==
    /\ nops < MaxOps
    /\ \A i \in 1..Len(hs) : hs[i] \in DOMAIN runs
    /\ ret' = compare_runs_outcome([i \in 1..Len(hs) |-> RunView(hs[i])],
                                   inject_css)
    /\ call' = [op |-> "compare_runs", args |-> <<hs, inject_css>>]
    /\ nops' = nops + 1
    /\ UNCHANGED <<runs, vheap, dheap, aheap, clock, fs, wlog>>

\* ------------------------------------------------------------ SpecRun

\* The arguments the calls are made with.
DataMaps ==
    { (KX :> IntVal(1)), (KY :> IntVal(2)),
      (KX :> IntVal(2)) @@ (KY :> StrVal(<<49>>)) }
ArtifactIds == {A1, A2}
Sources == {Bytes(B1), Str(P_IMG), Str(P_NONE)}
Texts == {Str(TXT), Bytes(B1)}
RunLists == {<< >>, <<"r1">>, <<"r1", "r2">>}

Construct ==
    \E h \in Handles, p \in {None, Some(1)}, m \in {None, Some(1)},
       d \in {None, Some(1)} :
        ExperimentRun_init(h, E1, MAIN, None, None, p, m, d, None)
LogParam == \E h \in Handles, k \in Keys, v \in Values : log_param(h, k, v)
LogMetric == \E h \in Handles, k \in Keys, v \in Values : log_metric(h, k, v)
LogParams == \E h \in Handles, m \in DataMaps : log_params(h, m)
LogMetrics == \E h \in Handles, m \in DataMaps : log_metrics(h, m)
LogDict == \E h \in Handles, n \in DictNames, m \in DataMaps : log_dict(h, n, m)
LogArtifact ==
    \E h \in Handles, src \in Sources, a \in ArtifactIds,
       f \in {None, Some(F_BIN)}, t \in {None, Some("PNG")} :
        log_artifact(h, src, a, f, t)
LogText == \E h \in Handles, t \in Texts, a \in ArtifactIds : log_text(h, t, a)
LogImage ==
    \E h \in Handles, src \in {Bytes(B2), Str(P_IMG)}, a \in ArtifactIds,
       f \in {None, Some(F_BIN)} :
        log_image(h, src, a, f)
CompareRuns == \E hs \in RunLists, css \in BOOLEAN : compare_runs(hs, css)

NextRun ==
    \/ Construct
    \/ LogParam
    \/ LogMetric
    \/ LogParams
    \/ LogMetrics
    \/ LogDict
    \/ LogArtifact
    \/ LogText
    \/ LogImage
    \/ CompareRuns

SpecRun == InitRun /\ [][NextRun]_vars

\* ------------------------------------------------------------ paths, blobs

StartsWith(s, pre) == Len(pre) <= Len(s) /\ SubSeq(s, 1, Len(pre)) = pre
EndsWith(s, suf) ==
    Len(suf) <= Len(s) /\ SubSeq(s, Len(s) - Len(suf) + 1, Len(s)) = suf

\* posixpath.join(a, b), then of several components.
join(a, b) ==
    IF b # << >> /\ b[1] = 47 THEN b
    ELSE IF a = << >> \/ a[Len(a)] = 47 THEN a \o b
    ELSE a \o <<47>> \o b

RECURSIVE join_all(_)
join_all(parts) ==
    IF Len(parts) = 1 THEN parts[1]
    ELSE join(join_all(SubSeq(parts, 1, Len(parts) - 1)), parts[Len(parts)])

\* datetime.isoformat(): "2024-MM-01T00:00:SS", then ".UUUUUU" when the
\* microsecond is not 0.
Pad6(n) ==
    <<48 + (n \div 100000), 48 + ((n \div 10000) % 10), 48 + ((n \div 1000) % 10),
      48 + ((n \div 100) % 10), 48 + ((n \div 10) % 10), 48 + (n % 10)>>
isoformat(ts) ==
    <<50, 48, 50, 52, 45>> \o Pad2(ts.mo)
    \o <<45, 48, 49, 84, 48, 48, 58, 48, 48, 58>> \o Pad2(ts.s)
    \o (IF ts.us = 0 THEN << >> ELSE <<46>> \o Pad6(ts.us))

\* The datetime pydantic parses from an ISO-8601 string.
RECURSIVE Number(_)
Number(ds) ==
    IF ds = << >> THEN 0
    ELSE 10 * Number(SubSeq(ds, 1, Len(ds) - 1)) + (ds[Len(ds)] - 48)
parse_datetime(s) ==
    Timestamp(Number(SubSeq(s, 6, 7)), Number(SubSeq(s, 18, 19)),
              IF Len(s) > 19 THEN Number(SubSeq(s, 21, 26)) ELSE 0)

\* ArtifactType(str, Enum): the value of a member, and the member of a value.
ArtifactTypeValue(member) ==
    CASE member = "PNG" -> <<112, 110, 103>>
      [] member = "JPG" -> <<106, 112, 103>>
      [] member = "PLOTLY_JSON" ->
            <<112, 108, 111, 116, 108, 121, 95, 106, 115, 111, 110>>
      [] member = "HTML" -> <<104, 116, 109, 108>>
      [] member = "BINARY" -> <<98, 105, 110, 97, 114, 121>>
ArtifactTypeOf(value) ==
    CHOOSE member \in ArtifactType : ArtifactTypeValue(member) = value

\* A value in a JSON document: an int is a JSON number, a str a JSON string;
\* and the Union[str, int, float] value read back from it.
json_value(v) ==
    IF v[1] = "int" THEN <<"number", v[2]>> ELSE <<"string">> \o Tail(v)
parse_value(j) ==
    IF j[1] = "number" THEN IntVal(j[2]) ELSE StrVal(Tail(j))

\* A str holding JSON text, kept as the document the text encodes.
JsonText(doc) == [kind |-> "str", val |-> doc]

\* The blob a write stores: the UTF-8 encoding of a str (of JSON text: the
\* document, tagged "text"), or the bytes as they are.
Blob(str_or_bytes) ==
    IF isinstance_str(str_or_bytes) THEN <<"text", str_or_bytes.val>>
    ELSE <<"bytes", str_or_bytes.val>>

\* The bytes read_file returns for a blob.
BlobBytes(blob) == IF blob[1] = "bytes" THEN blob[2] ELSE blob

\* write_to_file(str_or_bytes, uri): the store and the log of writes after it.
\* The parent directories it makes are implied by the path.
write_to_file(st, str_or_bytes, uri) ==
    [fs |-> Put(st.fs, uri, Blob(str_or_bytes)), log |-> Append(st.log, uri)]

\* ------------------------------------------------------------ serde: save

\* ExperimentRunMetadata(...).json(): the metadata document of a run, the
\* artifacts as ArtifactBase (no bytes).
er_metadata_json(er) ==
    [timestamp_utc |-> isoformat(er.timestamp_utc),
     experiment_id |-> er.experiment_id,
     variant_id |-> er.variant_id,
     run_id |-> er.run_id,
     params |-> [k \in DOMAIN er.params |-> json_value(er.params[k])],
     metrics |-> [k \in DOMAIN er.metrics |-> json_value(er.metrics[k])],
     dicts |-> [n \in DOMAIN er.dicts |->
                   [k \in DOMAIN er.dicts[n] |-> json_value(er.dicts[n][k])]],
     artifacts |-> [a \in DOMAIN er.artifacts |->
         LET base == ArtifactBase(er.artifacts[a].id, er.artifacts[a].filename,
                                  er.artifacts[a].artifact_type)
         IN  [id |-> base.id, filename |-> base.filename,
              artifact_type |-> ArtifactTypeValue(base.artifact_type)]]]

\* if fs.exists(run_metadata_file_path) and not overwrite: raise FileExistsError
run_exists_guard_inverted(store, run_metadata_file_path, overwrite) ==
    run_metadata_file_path \in DOMAIN store /\ overwrite

run_exists_guard(store, run_metadata_file_path, overwrite) ==
    run_metadata_file_path \in DOMAIN store /\ ~overwrite

\* posixpath.join(artifacts_dir, er.artifacts[a].filename)
artifact_file_path(path, artifact) ==
    join(join(path, ARTIFACTS_DIR), artifact.filename)

\* for a in er.artifacts.keys(): write_to_file(bytes, artifacts_dir/filename),
\* in the order `keys` of the dict's keys.
RECURSIVE write_artifacts(_, _, _, _)
write_artifacts(st, er, path, keys) ==
    IF keys = << >> THEN st
    ELSE write_artifacts(
             write_to_file(st, Bytes(er.artifacts[Head(keys)].bytes),
                           artifact_file_path(path, er.artifacts[Head(keys)])),
             er, path, Tail(keys))

\* A save that writes the artifact files first and the metadata document
\* last.
save_run_to_path_outcome_artifacts_first(st, er, path, overwrite, keys) ==
    LET run_metadata_file_path == join(path, RUN_METADATA_FILE_NAME)
    IN  IF run_exists_guard(st.fs, run_metadata_file_path, overwrite)
        THEN [exc |-> "FileExistsError", st |-> st]
        ELSE [exc |-> "none",
              st |-> write_to_file(write_artifacts(st, er, path, keys),
                                   JsonText(er_metadata_json(er)),
                                   run_metadata_file_path)]

\* save_run_to_path: the exception and the store after it.  `keys` is the
\* iteration order of er.artifacts, the order the caller inserted them in.
save_run_to_path_outcome(st, er, path, overwrite, keys) ==
    LET run_metadata_file_path == join(path, RUN_METADATA_FILE_NAME)
    IN  IF run_exists_guard(st.fs, run_metadata_file_path, overwrite)
        THEN [exc |-> "FileExistsError", st |-> st]
        ELSE [exc |-> "none",
              st |-> write_artifacts(
                         write_to_file(st, JsonText(er_metadata_json(er)),
                                       run_metadata_file_path),
                         er, path, keys)]

\* A marker file written whether or not it exists.
write_if_absent_always(st, file_path, file_contents) ==
    write_to_file(st, JsonText(file_contents), file_path)

\* if not fs.exists(file_path): write_to_file(json.dumps(file_contents), ...)
write_if_absent(st, file_path, file_contents) ==
    IF file_path \in DOMAIN st.fs THEN st
    ELSE write_to_file(st, JsonText(file_contents), file_path)

\* The three marker files of a run's registry, experiment and variant.
registry_file_path(root) == join(root, REGISTRY_FILE_NAME)
experiment_file_path(root, experiment_id) ==
    join_all(<<root, experiment_id, EXPERIMENT_FILE_NAME>>)
variant_file_path(root, experiment_id, variant_id) ==
    join_all(<<root, experiment_id, variant_id, VARIANT_FILE_NAME>>)
run_path(root, experiment_id, variant_id, run_id) ==
    join_all(<<root, experiment_id, variant_id, run_id>>)

\* save_run_to_registry: the markers, each if absent and stamped utcnow(),
\* then save_run_to_path at the run's path.
save_run_to_registry_outcome(st, now, er, root, overwrite, keys) ==
    LET st1 == write_if_absent(st, registry_file_path(root),
                   [created_timestamp_utc |-> isoformat(now)])
        st2 == write_if_absent(st1, experiment_file_path(root, er.experiment_id),
                   [experiment_id |-> er.experiment_id,
                    created_timestamp_utc |-> isoformat(now)])
        st3 == write_if_absent(st2,
                   variant_file_path(root, er.experiment_id, er.variant_id),
                   [variant_id |-> er.variant_id,
                    created_timestamp_utc |-> isoformat(now)])
    IN  save_run_to_path_outcome(st3, er,
            run_path(root, er.experiment_id, er.variant_id, er.run_id),
            overwrite, keys)

\* ------------------------------------------------------------ serde: load

\* ExperimentRunMetadata(**json.loads(...)): the fields of the schema.
MetadataFields ==
    {"timestamp_utc", "experiment_id", "variant_id", "run_id", "params",
     "metrics", "dicts", "artifacts"}

\* load_run_from_path: the run read from the metadata document and the
\* artifact files it names, or the exception of the first read that fails.
load_run_from_path_outcome(store, path) ==
    LET meta_path == join(path, RUN_METADATA_FILE_NAME)
        doc == store[meta_path][2]
        file(a) == join_all(<<path, ARTIFACTS_DIR, doc.artifacts[a].filename>>)
    IN  IF meta_path \notin DOMAIN store THEN Raised("FileNotFoundError")
        ELSE IF store[meta_path][1] # "text" THEN Raised("ValueError")
        ELSE IF DOMAIN doc # MetadataFields THEN Raised("ValidationError")
        ELSE IF \E a \in DOMAIN doc.artifacts : file(a) \notin DOMAIN store
        THEN Raised("FileNotFoundError")
        ELSE Returned(
            [experiment_id |-> doc.experiment_id,
             variant_id |-> doc.variant_id,
             run_id |-> doc.run_id,
             timestamp_utc |-> parse_datetime(doc.timestamp_utc),
             params |-> [k \in DOMAIN doc.params |-> parse_value(doc.params[k])],
             metrics |-> [k \in DOMAIN doc.metrics |-> parse_value(doc.metrics[k])],
             dicts |-> [n \in DOMAIN doc.dicts |->
                 [k \in DOMAIN doc.dicts[n] |-> parse_value(doc.dicts[n][k])]],
             artifacts |-> [a \in DOMAIN doc.artifacts |->
                 Artifact(doc.artifacts[a].id, doc.artifacts[a].filename,
                          ArtifactTypeOf(doc.artifacts[a].artifact_type),
                          BlobBytes(store[file(a)]))]])

\* ------------------------------------------------------------ registry

\* remove_scheme_if_exists: what follows the first "://", or the uri itself.
remove_scheme_if_exists(uri) ==
    LET at == {i \in 1..(Len(uri) - 2) : SubSeq(uri, i, i + 2) = <<58, 47, 47>>}
        first == CHOOSE i \in at : \A j \in at : i <= j
    IN  IF at = {} THEN uri ELSE SubSeq(uri, first + 3, Len(uri))

\* fs.glob(prefix/**/name): every stored path whose last component is name,
\* any number of directories below prefix.
glob(store, prefix, name) ==
    {p \in DOMAIN store :
        /\ StartsWith(p, prefix \o <<47>>)
        /\ EndsWith(p, <<47>> \o name)
        /\ Len(p) > Len(prefix) + Len(name) + 2}

\* path[len(prefix) + 1 : -len(file_name) - 1]
id_slice(path, prefix, file_name) ==
    SubSeq(path, Len(prefix) + 2, Len(path) - Len(file_name) - 1)

\* list_runs: the slice of every path the glob of the metadata file name
\* under the variant's directory returns.
list_runs(store, registry_uri, experiment_id, variant_id) ==
    LET variant_uri == join_all(<<registry_uri, experiment_id, variant_id>>)
        variant_uri_without_scheme == remove_scheme_if_exists(variant_uri)
    IN  {id_slice(remove_scheme_if_exists(path), variant_uri_without_scheme,
                  RUN_METADATA_FILE_NAME) :
            path \in glob(store, variant_uri, RUN_METADATA_FILE_NAME)}

\* list_experiments and list_variants: the same glob and slice, for the
\* experiment marker under the root and the variant marker under the
\* experiment's directory.  The lists hold one entry per path the glob
\* returns; they are kept as the sets of their entries.
list_experiments(store, registry_uri) ==
    LET registry_uri_without_scheme == remove_scheme_if_exists(registry_uri)
    IN  {id_slice(remove_scheme_if_exists(path), registry_uri_without_scheme,
                  EXPERIMENT_FILE_NAME) :
            path \in glob(store, registry_uri, EXPERIMENT_FILE_NAME)}

list_variants(store, registry_uri, experiment_id) ==
    LET experiment_uri == join_all(<<registry_uri, experiment_id>>)
        experiment_uri_without_scheme == remove_scheme_if_exists(experiment_uri)
    IN  {id_slice(remove_scheme_if_exists(path), experiment_uri_without_scheme,
                  VARIANT_FILE_NAME) :
            path \in glob(store, experiment_uri, VARIANT_FILE_NAME)}

\* get_latest_run_for_variant: runs.sort(); runs[-1], an IndexError on an
\* empty list.
get_latest_run_for_variant(store, registry_uri, experiment_id, variant_id) ==
    LET sorted == SortedList(list_runs(store, registry_uri, experiment_id,
                                       variant_id))
    IN  IF sorted = << >> THEN Raised("IndexError")
        ELSE Returned(sorted[Len(sorted)])

\* load_run_from_registry: the latest run when run_id is None.
load_run_from_registry_outcome(store, registry_uri, experiment_id, variant_id, run_id) ==
    LET latest == IF run_id = None
                  THEN get_latest_run_for_variant(store, registry_uri,
                                                  experiment_id, variant_id)
                  ELSE Returned(The(run_id))
    IN  IF latest.exc # "none" THEN latest
        ELSE load_run_from_path_outcome(store,
                 run_path(registry_uri, experiment_id, variant_id, latest.val))

\* ------------------------------------------------------------ store actions

\* The orders a dict's keys can be iterated in: any order of insertion.
Orders(S) ==
    {q \in [1..Cardinality(S) -> S] : \A i, j \in 1..Cardinality(S) :
                                          i # j => q[i] # q[j]}

InitStore ==
    /\ runs = [h \in {} |-> 0]
    /\ vheap = [o \in {} |-> 0]
    /\ dheap = [o \in {} |-> 0]
    /\ aheap = [o \in {} |-> 0]
    /\ nops = 0
    /\ clock = 0
    /\ call = NoCall
    /\ ret = Returned(<< >>)
    /\ fs = [p \in {} |-> 0]
    /\ wlog = << >>

save_run_to_path(er, path, overwrite, keys) ==
    /\ nops < MaxSaves
    /\ LET out == save_run_to_path_outcome([fs |-> fs, log |-> << >>], er, path,
                                           overwrite, keys)
       IN  /\ fs' = out.st.fs
           /\ wlog' = out.st.log
           /\ ret' = IF out.exc = "none" THEN Returned(<< >>) ELSE Raised(out.exc)
    /\ call' = [op |-> "save_run_to_path", args |-> <<er, path, overwrite>>]
    /\ nops' = nops + 1
    /\ UNCHANGED <<runs, vheap, dheap, aheap, clock>>

load_run_from_path(path) ==
    /\ ret' = load_run_from_path_outcome(fs, path)
    /\ call' = [op |-> "load_run_from_path", args |-> <<path>>]
    /\ wlog' = << >>
    /\ UNCHANGED <<runs, vheap, dheap, aheap, clock, nops, fs>>

save_run_to_registry(er, root, overwrite, keys) ==
    /\ nops < MaxSaves
    /\ clock < Len(ClockTicks)
    /\ LET out == save_run_to_registry_outcome([fs |-> fs, log |-> << >>],
                      ClockTicks[clock + 1], er, root, overwrite, keys)
       IN  /\ fs' = out.st.fs
           /\ wlog' = out.st.log
           /\ ret' = IF out.exc = "none"
                     THEN Returned(run_path(root, er.experiment_id,
                                            er.variant_id, er.run_id))
                     ELSE Raised(out.exc)
    /\ clock' = clock + 1
    /\ call' = [op |-> "save_run_to_registry", args |-> <<er, root, overwrite>>]
    /\ nops' = nops + 1
    /\ UNCHANGED <<runs, vheap, dheap, aheap>>

load_run_from_registry(root, experiment_id, variant_id, run_id) ==
    /\ ret' = load_run_from_registry_outcome(fs, root, experiment_id,
                                             variant_id, run_id)
    /\ call' = [op |-> "load_run_from_registry",
                args |-> <<root, experiment_id, variant_id, run_id>>]
    /\ wlog' = << >>
    /\ UNCHANGED <<runs, vheap, dheap, aheap, clock, nops, fs>>

\* The runs that are saved: an ExperimentRun as its attributes and the
\* contents of its containers.
Run(experiment_id, variant_id, run_id, timestamp_utc, logged, artifacts) ==
    [experiment_id |-> experiment_id,
     variant_id |-> variant_id,
     run_id |-> IF run_id = None THEN strftime(timestamp_utc) ELSE The(run_id),
     timestamp_utc |-> timestamp_utc,
     params |-> IF logged THEN (KX :> IntVal(1)) @@ (KY :> StrVal(<<49>>))
                ELSE EmptyDict,
     metrics |-> IF logged THEN (KX :> IntVal(2)) ELSE EmptyDict,
     dicts |-> IF logged THEN (ND :> (KY :> IntVal(2))) ELSE EmptyDict,
     artifacts |-> artifacts]

OneArtifact == (A1 :> Artifact(A1, F_BIN, "BINARY", B1))
TwoArtifacts == OneArtifact @@ (A2 :> Artifact(A2, G_BIN, "PNG", B2))
\* Two artifacts logged under one filename.
ClashingArtifacts == OneArtifact @@ (A2 :> Artifact(A2, F_BIN, "PNG", B2))
\* An artifact whose filename is that of the metadata document.
MetadataNamedArtifact ==
    (A1 :> Artifact(A1, RUN_METADATA_FILE_NAME, "BINARY", B1))

PathRuns ==
    {Run(E1, MAIN, None, ts, logged, artifacts) :
        ts \in {ClockTicks[1], ClockTicks[3]}, logged \in BOOLEAN,
        artifacts \in {EmptyDict, OneArtifact, TwoArtifacts, ClashingArtifacts}}

RegistryRuns ==
    {Run(ev[1], ev[2], it[1], it[2], FALSE, artifacts) :
        ev \in {<<E1, MAIN>>, <<E1, V2>>, <<E2, MAIN>>},
        it \in {<<None, ClockTicks[2]>>, <<None, ClockTicks[4]>>,
                <<Some(R9), ClockTicks[2]>>},
        artifacts \in {TwoArtifacts, MetadataNamedArtifact}}

SaveRunToPath ==
    \E er \in PathRuns, path \in {PATH_P, PATH_Q}, overwrite \in BOOLEAN :
        \E keys \in Orders(DOMAIN er.artifacts) :
            save_run_to_path(er, path, overwrite, keys)
LoadRunFromPath == \E path \in {PATH_P, PATH_Q} : load_run_from_path(path)

NextPath == SaveRunToPath \/ LoadRunFromPath

SpecPath == InitStore /\ [][NextPath]_vars

SaveRunToRegistry ==
    \E er \in RegistryRuns, overwrite \in BOOLEAN :
        \E keys \in Orders(DOMAIN er.artifacts) :
            save_run_to_registry(er, REG, overwrite, keys)
LoadRunFromRegistry ==
    \E e \in {E1, E2}, v \in {MAIN, V2}, rid \in {None, Some(R9)} :
        load_run_from_registry(REG, e, v, rid)

NextRegistry == SaveRunToRegistry \/ LoadRunFromRegistry

SpecRegistry == InitStore /\ [][NextRegistry]_vars

\* A registry that is written through both entry points: runs saved with
\* save_run_to_registry, and runs saved with save_run_to_path at the path a
\* registry gives them.
MixedRuns ==
    {er \in RegistryRuns : er.experiment_id = E1 /\ er.variant_id = MAIN}
SaveRunToRegistryMixed ==
    \E er \in MixedRuns, overwrite \in BOOLEAN :
        \E keys \in Orders(DOMAIN er.artifacts) :
            save_run_to_registry(er, REG, overwrite, keys)
SaveRunAtRegistryPath ==
    \E er \in MixedRuns, overwrite \in BOOLEAN :
        \E keys \in Orders(DOMAIN er.artifacts) :
            save_run_to_path(er, run_path(REG, er.experiment_id, er.variant_id,
                                          er.run_id), overwrite, keys)

NextMixed == SaveRunToRegistryMixed \/ SaveRunAtRegistryPath \/ LoadRunFromRegistry

SpecMixed == InitStore /\ [][NextMixed]_vars

\* ------------------------------------------------------------ claims: store

MetadataPath(path) == join(path, RUN_METADATA_FILE_NAME)

\* C1: save_run_to_path(r, path) on a path with no run, then
\* load_run_from_path(path), returns a run with r's identity, timestamp,
\* params, metrics, dicts and artifacts (id, filename, type and bytes).
C1_RoundTrip ==
    [][\A er \in PathRuns, path \in {PATH_P, PATH_Q}, overwrite \in BOOLEAN :
        (/\ call' = [op |-> "save_run_to_path", args |-> <<er, path, overwrite>>]
         /\ MetadataPath(path) \notin DOMAIN fs)
        => /\ ret' = Returned(<< >>)
           /\ load_run_from_path_outcome(fs', path) = Returned(er)]_vars

\* C2: save_run_to_path(r, path, overwrite=False) on a path whose
\* erm_metadata.json exists raises FileExistsError, writes nothing and leaves
\* the blob store as it was.
C2_OverwriteGuard ==
    [][\A er \in PathRuns, path \in {PATH_P, PATH_Q} :
        (/\ call' = [op |-> "save_run_to_path", args |-> <<er, path, FALSE>>]
         /\ MetadataPath(path) \in DOMAIN fs)
        => /\ ret' = Raised("FileExistsError")
           /\ fs' = fs
           /\ wlog' = << >>]_vars

\* A save without overwrite has been refused at a path that holds a run.
C2_Witness ==
    /\ call.op = "save_run_to_path"
    /\ call.args[3] = FALSE
    /\ ret = Raised("FileExistsError")
    /\ MetadataPath(call.args[2]) \in DOMAIN fs

\* C3: save_run_to_path(r2, path, overwrite=True) on a path where a run was
\* saved succeeds, and load_run_from_path(path) then returns a run equal to
\* r2, with nothing left over from the run saved before.
C3_OverwriteReplaces ==
    [][\A er \in PathRuns, path \in {PATH_P, PATH_Q} :
        (/\ call' = [op |-> "save_run_to_path", args |-> <<er, path, TRUE>>]
         /\ MetadataPath(path) \in DOMAIN fs)
        => /\ ret' = Returned(<< >>)
           /\ load_run_from_path_outcome(fs', path) = Returned(er)]_vars

\* The files under a path's artifacts directory, and the files the metadata
\* document at the path names.
FilesUnderArtifacts(store, path) ==
    {p \in DOMAIN store : StartsWith(p, join(path, ARTIFACTS_DIR) \o <<47>>)}
FilesNamedByMetadata(store, path) ==
    LET doc == store[MetadataPath(path)][2]
    IN  {join_all(<<path, ARTIFACTS_DIR, doc.artifacts[a].filename>>) :
            a \in DOMAIN doc.artifacts}

\* C18: after any sequence of successful saves to one path, the files under
\* {path}/artifacts/ are the files named by the artifacts of the run saved
\* last, the run erm_metadata.json describes: no file of an earlier save that
\* it does not name remains.
C18_NoStaleArtifactFiles ==
    \A path \in {PATH_P, PATH_Q} :
        MetadataPath(path) \in DOMAIN fs
        => FilesUnderArtifacts(fs, path) = FilesNamedByMetadata(fs, path)

\* The marker files of the registry: of the root, of each experiment and of
\* each variant.
MarkerPaths ==
    {registry_file_path(REG)}
    \cup {experiment_file_path(REG, e) : e \in {E1, E2}}
    \cup {variant_file_path(REG, e, v) : e \in {E1, E2}, v \in {MAIN, V2}}
MarkersOf(er) ==
    {registry_file_path(REG), experiment_file_path(REG, er.experiment_id),
     variant_file_path(REG, er.experiment_id, er.variant_id)}
Writes(log, path) == Cardinality({i \in 1..Len(log) : log[i] = path})

\* C4: over any sequence of save_run_to_registry calls on one root, a marker
\* file is written once, by the first save that needs it, and is neither
\* written again nor changed afterwards.
C4_MarkersWrittenOnce ==
    [][/\ \A m \in MarkerPaths : m \in DOMAIN fs =>
              /\ m \in DOMAIN fs'
              /\ fs'[m] = fs[m]
              /\ Writes(wlog', m) = 0
       /\ \A er \in RegistryRuns, overwrite \in BOOLEAN :
              call' = [op |-> "save_run_to_registry",
                       args |-> <<er, REG, overwrite>>]
              => \A m \in MarkersOf(er) :
                     /\ m \in DOMAIN fs'
                     /\ m \notin DOMAIN fs => Writes(wlog', m) = 1]_vars

\* A second run has been saved under a variant whose markers were there: the
\* save wrote the run's files and no marker.
C4_Witness ==
    /\ call.op = "save_run_to_registry"
    /\ ret.exc = "none"
    /\ nops >= 2
    /\ wlog # << >>
    /\ \A m \in MarkerPaths : Writes(wlog, m) = 0
    /\ MarkersOf(call.args[1]) \subseteq DOMAIN fs

\* The places of a path in a log of writes, the files of a run's artifacts at
\* its path in the registry, and the paths that exist after the first k
\* writes of a log.
Places(log, path) == {i \in 1..Len(log) : log[i] = path}
RunPathOf(er) == run_path(REG, er.experiment_id, er.variant_id, er.run_id)
ArtifactFilesOf(er) ==
    {artifact_file_path(RunPathOf(er), er.artifacts[a]) : a \in DOMAIN er.artifacts}
ExistingAfter(store, log, k) == DOMAIN store \cup {log[i] : i \in 1..k}

\* C14: save_run_to_registry writes the registry, experiment and variant
\* markers (each if absent) before erm_metadata.json, and erm_metadata.json
\* before every artifact file of the run; so at every point of a first save
\* to a path, an artifact file of the run exists only if the metadata
\* document does.
C14_WriteOrder ==
    [][\A er \in RegistryRuns, overwrite \in BOOLEAN :
        call' = [op |-> "save_run_to_registry", args |-> <<er, REG, overwrite>>]
        => LET meta == MetadataPath(RunPathOf(er))
               files == ArtifactFilesOf(er)
           IN  /\ ret'.exc = "none" =>
                      /\ Writes(wlog', meta) = 1
                      /\ \A f \in files : Places(wlog', f) # {}
               /\ \A m \in MarkersOf(er) : \A i \in Places(wlog', m) :
                      \A j \in Places(wlog', meta) : i < j
               /\ \A f \in files : \A i \in Places(wlog', f) :
                      \A j \in Places(wlog', meta) : j < i
               /\ meta \notin DOMAIN fs =>
                      \A k \in 0..Len(wlog') :
                          files \cap ExistingAfter(fs, wlog', k) # {}
                          => meta \in ExistingAfter(fs, wlog', k)]_vars

\* A first save of a run with two artifacts has written the three markers,
\* the metadata document and the two artifact files.
C14_Witness ==
    /\ call.op = "save_run_to_registry"
    /\ ret.exc = "none"
    /\ Len(wlog) = 6
    /\ Cardinality(ArtifactFilesOf(call.args[1])) = 2
    /\ ArtifactFilesOf(call.args[1]) \subseteq DOMAIN fs

\* C15: when save_run_to_registry(r, root, overwrite=False) fails with
\* FileExistsError because the run's erm_metadata.json exists, the blob store
\* is as it was before the call: no marker file has been created.
C15_RefusedSaveWritesNothing ==
    [][\A er \in RegistryRuns :
        (/\ call' = [op |-> "save_run_to_registry", args |-> <<er, REG, FALSE>>]
         /\ MetadataPath(RunPathOf(er)) \in DOMAIN fs)
        => /\ ret' = Raised("FileExistsError")
           /\ fs' = fs
           /\ wlog' = << >>]_vars

\* The metadata documents of the runs saved under a variant, and their ids.
SavedRuns(store, experiment_id, variant_id) ==
    {store[p][2] : p \in {q \in DOMAIN store :
        /\ store[q][1] = "text"
        /\ DOMAIN store[q][2] = MetadataFields
        /\ store[q][2].experiment_id = experiment_id
        /\ store[q][2].variant_id = variant_id}}
SavedRunIds(store, experiment_id, variant_id) ==
    {doc.run_id : doc \in SavedRuns(store, experiment_id, variant_id)}
TimestampLeq(a, b) ==
    \/ a.mo < b.mo
    \/ a.mo = b.mo /\ a.s < b.s
    \/ a.mo = b.mo /\ a.s = b.s /\ a.us <= b.us

\* C5: load_run_from_registry(root, experiment_id, variant_id) without a run
\* id loads the run whose id is the lexicographic maximum of the ids saved
\* under the variant; when all of them are timestamp-derived, it is the run
\* with the latest timestamp_utc.
C5_LatestRun ==
    [][\A e \in {E1, E2}, v \in {MAIN, V2} :
        (/\ call' = [op |-> "load_run_from_registry", args |-> <<REG, e, v, None>>]
         /\ SavedRunIds(fs, e, v) # {})
        => /\ ret'.exc = "none"
           /\ \A id \in SavedRunIds(fs, e, v) :
                  id = ret'.val.run_id \/ StrLess(id, ret'.val.run_id)
           /\ (\A doc \in SavedRuns(fs, e, v) :
                   doc.run_id = strftime(parse_datetime(doc.timestamp_utc)))
              => \A doc \in SavedRuns(fs, e, v) :
                     TimestampLeq(parse_datetime(doc.timestamp_utc),
                                  ret'.val.timestamp_utc)]_vars

\* The metadata documents of all the runs saved in the store.
AllSavedRuns(store) ==
    UNION {SavedRuns(store, e, v) : e \in {E1, E2}, v \in {MAIN, V2}}

\* C16: after any sequence of successful save_run_to_registry calls,
\* list_runs(root, e, v) is the run ids saved under e and v, list_variants(root,
\* e) the variant ids saved under e and list_experiments(root) the experiment
\* ids saved, with no other entry, whatever the artifacts of the runs.
C16_Discovery ==
    /\ list_experiments(fs, REG) =
           {doc.experiment_id : doc \in AllSavedRuns(fs)}
    /\ \A e \in {E1, E2} :
           list_variants(fs, REG, e) =
               {doc.variant_id :
                    doc \in {d \in AllSavedRuns(fs) : d.experiment_id = e}}
    /\ \A e \in {E1, E2}, v \in {MAIN, V2} :
           list_runs(fs, REG, e, v) = SavedRunIds(fs, e, v)

\* C12: asking for the latest run of a variant with no saved run, through
\* get_latest_run_for_variant or load_run_from_registry without a run id,
\* raises FileNotFoundError and no other exception.
C12_LatestOfEmptyVariant ==
    [][\A e \in {E1, E2}, v \in {MAIN, V2} :
        (/\ call' = [op |-> "load_run_from_registry", args |-> <<REG, e, v, None>>]
         /\ SavedRunIds(fs, e, v) = {})
        => /\ get_latest_run_for_variant(fs, REG, e, v).exc = "FileNotFoundError"
           /\ ret'.exc = "FileNotFoundError"]_vars

\* ------------------------------------------------------------ claims: runs

\* The containers of run h, as the caller reads them.
Params(h) == RunView(h).params
Metrics(h) == RunView(h).metrics
Dicts(h) == RunView(h).dicts
Artifacts(h) == RunView(h).artifacts

\* The rows of the "Params" table of a document; none when it has no such
\* table.
ParamsRows(doc) ==
    LET at == {j \in 1..Len(doc) :
                  /\ doc[j].kind = "table"
                  /\ doc[j].title = <<80, 97, 114, 97, 109, 115>>}
    IN  IF at = {} THEN << >> ELSE doc[CHOOSE j \in at : TRUE].rows

\* C6: compare_runs returns a document whose params table has one row per key
\* of the union of the runs' params, each key once, ascending, and whose cell
\* for (key, run i) is run i's value for the key, or empty when it has none.
C6_ParamsTableKeyUnion ==
    call.op = "compare_runs" =>
        /\ ret.exc = "none"
        /\ LET hs == call.args[1]
               rows == ParamsRows(ret.val)
               union == UNION {DOMAIN Params(hs[i]) : i \in 1..Len(hs)}
           IN  /\ {rows[r].key : r \in 1..Len(rows)} = union
               /\ \A r \in 1..Len(rows) : \A q \in 1..Len(rows) :
                      r < q => StrLess(rows[r].key, rows[q].key)
               /\ \A r \in 1..Len(rows) : \A i \in 1..Len(hs) :
                      rows[r].cells[i] =
                          IF rows[r].key \in DOMAIN Params(hs[i])
                          THEN FormatValue(Params(hs[i])[rows[r].key])
                          ELSE << >>

\* The titles of the tables a document holds, in document order, and the
\* places of its parts of one kind.
TableTitles(doc) ==
    LET IsTable(part) == part.kind = "table"
        tables == SelectSeq(doc, IsTable)
    IN  [j \in 1..Len(tables) |-> tables[j].title]
PartsOfKind(doc, kind) == {j \in 1..Len(doc) : doc[j].kind = kind}

\* C13: the document compare_runs returns holds, in this order, the
\* identity/timestamp table with one row per run in input order, the params
\* table, one table per named dict in ascending order of name, the metrics
\* table and the artifacts section; a collection with no key in any run has
\* no table, and there is no other table.
C13_DocumentOrder ==
    call.op = "compare_runs" =>
        /\ ret.exc = "none"
        /\ LET hs == call.args[1]
               doc == ret.val
               n == Len(hs)
               keyed(name) == \E i \in 1..n : name \in DOMAIN Dicts(hs[i])
                                               /\ DOMAIN Dicts(hs[i])[name] # {}
               names == SortedList({name \in DictNames : keyed(name)})
               expected ==
                   (IF \E i \in 1..n : DOMAIN Params(hs[i]) # {}
                    THEN << <<80, 97, 114, 97, 109, 115>> >> ELSE << >>)
                   \o names
                   \o (IF \E i \in 1..n : DOMAIN Metrics(hs[i]) # {}
                       THEN << <<77, 101, 116, 114, 105, 99, 115>> >> ELSE << >>)
           IN  /\ TableTitles(doc) = expected
               /\ \E t \in PartsOfKind(doc, "timestamps") :
                      /\ PartsOfKind(doc, "timestamps") = {t}
                      /\ Len(doc[t].rows) = n
                      /\ \A i \in 1..n : doc[t].rows[i].run_id = runs[hs[i]].run_id
                      /\ \A j \in PartsOfKind(doc, "table") : t < j
               /\ \E a \in PartsOfKind(doc, "artifacts_heading") :
                      /\ \A j \in PartsOfKind(doc, "table") : j < a
                      /\ \A j \in PartsOfKind(doc, "artifact") : a < j

\* The logging operations of an ExperimentRun.
LoggingOps ==
    {"log_param", "log_params", "log_metric", "log_metrics", "log_dict",
     "log_artifact"}

\* C17: a logging operation on one ExperimentRun changes no param, metric,
\* named dict or artifact of any other ExperimentRun, however the two were
\* created.
C17_ExclusiveOwnership ==
    [][\A h \in Handles, g \in Handles :
        (/\ call'.op \in LoggingOps
         /\ call'.args[1] = h
         /\ g # h
         /\ g \in DOMAIN runs)
        => RunView(g)' = RunView(g)]_vars

\* C7: after log_dict(name, m), dicts[name] has m's value for every key of m
\* and the previous value for every other key it had; the named dict is
\* created when absent; no other named dict, param, metric or artifact of the
\* run changes.
C7_LogDictMerge ==
    [][\A h \in Handles, name \in DictNames, m \in DataMaps :
        call' = [op |-> "log_dict", args |-> <<h, name, m>>] =>
        LET old == IF name \in DOMAIN Dicts(h) THEN Dicts(h)[name] ELSE EmptyDict
        IN  /\ ret'.exc = "none"
            /\ DOMAIN Dicts(h)' = DOMAIN Dicts(h) \cup {name}
            /\ \A k \in DOMAIN m : k \in DOMAIN Dicts(h)'[name]
                                   /\ Dicts(h)'[name][k] = m[k]
            /\ \A k \in DOMAIN old \ DOMAIN m :
                   k \in DOMAIN Dicts(h)'[name] /\ Dicts(h)'[name][k] = old[k]
            /\ \A n \in DOMAIN Dicts(h) \ {name} : Dicts(h)'[n] = Dicts(h)[n]
            /\ Params(h)' = Params(h)
            /\ Metrics(h)' = Metrics(h)
            /\ Artifacts(h)' = Artifacts(h)]_vars

\* C8: log_artifact with raw bytes and no filename raises ValueError and
\* leaves the run's artifacts, params, metrics and dicts as they were.
C8_MissingFilename ==
    [][\A h \in Handles :
        (/\ call'.op = "log_artifact"
         /\ call'.args[1] = h
         /\ isinstance_bytes(call'.args[2])
         /\ call'.args[4] = None) =>
        /\ ret'.exc = "ValueError"
        /\ RunView(h)' = RunView(h)]_vars

C8_Witness ==
    /\ call.op = "log_artifact"
    /\ isinstance_bytes(call.args[2])
    /\ call.args[4] = None
    /\ ret.exc = "ValueError"
    /\ DOMAIN Artifacts(call.args[1]) # {}

\* C9: after log_artifact(bytes, artifact_id, filename, type),
\* artifacts[artifact_id] is the artifact (artifact_id, filename, type, bytes),
\* of type BINARY when no type is given, whatever was logged under that id
\* before; every other artifact entry, the params, the metrics and the dicts
\* are as they were.
C9_LogArtifactUpsert ==
    [][\A h \in Handles, id \in ArtifactIds :
        (/\ call'.op = "log_artifact"
         /\ call'.args[1] = h
         /\ call'.args[3] = id
         /\ isinstance_bytes(call'.args[2])
         /\ call'.args[4] # None) =>
        /\ ret'.exc = "none"
        /\ DOMAIN Artifacts(h)' = DOMAIN Artifacts(h) \cup {id}
        /\ Artifacts(h)'[id] =
               Artifact(id, The(call'.args[4]),
                        IF call'.args[5] = None THEN "BINARY"
                        ELSE The(call'.args[5]),
                        call'.args[2].val)
        /\ \A a \in DOMAIN Artifacts(h) \ {id} :
               Artifacts(h)'[a] = Artifacts(h)[a]
        /\ Params(h)' = Params(h)
        /\ Metrics(h)' = Metrics(h)
        /\ Dicts(h)' = Dicts(h)]_vars

C9_Witness ==
    /\ call.op = "log_artifact"
    /\ isinstance_bytes(call.args[2])
    /\ call.args[4] # None
    /\ call.args[5] = None
    /\ ret.exc = "none"
    /\ Artifacts(call.args[1])[call.args[3]].artifact_type = "BINARY"
    /\ \E a \in DOMAIN Artifacts(call.args[1]) : a # call.args[3]

\* C11: log_image(source, artifact_id, filename) stores under artifact_id an
\* artifact of type PNG whose filename is artifact_id when no filename is
\* given, for a bytes source and for a local file source alike.
C11_LogImage ==
    [][\A h \in Handles, id \in ArtifactIds :
        (/\ call'.op = "log_image"
         /\ call'.args[1] = h
         /\ call'.args[3] = id
         /\ ret'.exc = "none") =>
        /\ id \in DOMAIN Artifacts(h)'
        /\ Artifacts(h)'[id].artifact_type = "PNG"
        /\ call'.args[4] = None => Artifacts(h)'[id].filename = id]_vars

\* C10: log_text(text, artifact_id) stores under artifact_id a BINARY artifact
\* named artifact_id whose bytes are the UTF-8 encoding of a str text and the
\* text itself when it is a byte string.
C10_LogText ==
    [][\A h \in Handles, id \in ArtifactIds :
        (/\ call'.op = "log_text"
         /\ call'.args[1] = h
         /\ call'.args[3] = id) =>
        /\ ret'.exc = "none"
        /\ id \in DOMAIN Artifacts(h)'
        /\ Artifacts(h)'[id] =
               Artifact(id, id, "BINARY",
                        IF isinstance_str(call'.args[2])
                        THEN Utf8Encode(call'.args[2].val)
                        ELSE call'.args[2].val)]_vars

====
